---- MODULE Spec2Model ----
(***************************************************************************)
(* Model of ott.py: the resumable enrichment pipeline over a SQLite taxon  *)
(* table (download_tree, process_tree, db_exists, db_create, lookup_taxa,  *)
(* main), run again and again against the same database file.              *)
(*                                                                         *)
(* Taxon ids and clade names are sequences of one-character strings, so    *)
(* that the regular expression and the int() conversion are computed.      *)
(* The durable database file is `disk`; `conn` is the view of the open     *)
(* connection (the committed rows plus the pending transaction).           *)
(***************************************************************************)
EXTENDS Integers, Sequences, FiniteSets, TLC

(* ------------------------------ bounds -------------------------------- *)

\* Stand-in for the literal 100 of `index % 100 == 0` (ott.py:105), scaled
\* down so that the sample trees cross several checkpoints.
CheckpointInterval == 2

\* Number of injected faults (interrupt, kill, remote error, non-200
\* response, download failure) over the whole behaviour.
MaxFaults == 2

\* Largest number of nodes of the trees that process_tree is applied to on
\* its own (TreeSpec).
MaxNodes == 4

\* Stand-in for BATCH_SIZE = 100 (merge.py:19), scaled down so that the
\* sample CSV files need several batches.
BATCH_SIZE == 2

\* Largest number of rows of the CSV file merge.py reads.
MaxRows == 3

(* ----------------------------- constants ------------------------------ *)

NoneVal == <<>>                \* Python None / an absent clade name
NULL == "NULL"                 \* SQL NULL in column info
Placeholder == "Unknown Taxon" \* json.dumps({"name": "Unknown Taxon"})
Payloads == {"infoA", "infoB"} \* bodies the API may return with status 200

Digits == {"0", "1", "2", "3", "4", "5", "6", "7", "8", "9"}

Ott1 == <<"o", "t", "t", "1">>
Ott2 == <<"o", "t", "t", "2">>
Ott3 == <<"o", "t", "t", "3">>
Ott12 == <<"o", "t", "t", "1", "2">>
Mrca == <<"m", "r", "c", "a", "o", "t", "t", "1", "o", "t", "t", "2">>
Ott1x == <<"o", "t", "t", "1", "x">>

(* ------------------------- pure functions ----------------------------- *)

\* re.compile(r"^ott\d+$").match(s): prefix "ott", one or more digits, then
\* the end of the string or a single newline that ends the string.
PatternMatch(s) ==
    LET n == IF Len(s) > 0 /\ s[Len(s)] = "\n" THEN Len(s) - 1 ELSE Len(s)
    IN  /\ n >= 4
        /\ s[1] = "o" /\ s[2] = "t" /\ s[3] = "t"
        /\ \A i \in 4..n : s[i] \in Digits

DigitVal(c) ==
    CASE c = "0" -> 0 [] c = "1" -> 1 [] c = "2" -> 2 [] c = "3" -> 3
      [] c = "4" -> 4 [] c = "5" -> 5 [] c = "6" -> 6 [] c = "7" -> 7
      [] c = "8" -> 8 [] c = "9" -> 9

RECURSIVE ParseInt(_)
\* int(text) for a string of decimal digits, optionally followed by "\n".
ParseInt(text) ==
    IF text = <<>> THEN 0
    ELSE IF text[Len(text)] = "\n" THEN ParseInt(SubSeq(text, 1, Len(text) - 1))
    ELSE 10 * ParseInt(SubSeq(text, 1, Len(text) - 1)) + DigitVal(text[Len(text)])

\* int(taxon_id[3:])
OttId(taxon_id) == ParseInt(SubSeq(taxon_id, 4, Len(taxon_id)))

(* ------------------------------ trees --------------------------------- *)

\* A tree as Phylo.read returns it: node 1 is tree.root, every node has a
\* name (NoneVal when the Newick node is unlabelled) and its clades.
Node(name, clades) == [name |-> name, clades |-> clades]

TreeChain2 == <<Node(Ott1, <<2>>), Node(Ott2, <<>>)>>
TreeSingle == <<Node(Ott1, <<>>)>>
TreeMixed == <<Node(Ott1, <<2>>), Node(Mrca, <<3, 4>>), Node(Ott2, <<>>), Node(Ott3, <<>>)>>
TreeStar == <<Node(Ott1, <<2, 3>>), Node(Ott2, <<>>), Node(Ott3, <<>>)>>
TreeDup == <<Node(Ott1, <<2, 3>>), Node(Ott2, <<>>), Node(Ott2, <<>>)>>
TreeGap == <<Node(Ott1, <<2>>), Node(NoneVal, <<3>>), Node(Ott12, <<>>)>>
TreeEmpty == <<Node(NoneVal, <<>>)>>
TreeComposite == <<Node(Mrca, <<2>>), Node(Ott1x, <<>>)>>

NoTree == <<>>                 \* OTT_TREE_FILE does not exist

Trees == <<TreeChain2, TreeSingle, TreeMixed, TreeStar, TreeDup, TreeGap,
           TreeEmpty, TreeComposite>>

\* names the nodes of the generated trees may carry
TreeNames == {NoneVal, Ott1, Ott2, Mrca}

RECURSIVE SortedSeq(_)
\* the elements of a finite set of integers in increasing order
SortedSeq(S) ==
    IF S = {} THEN <<>>
    ELSE LET m == CHOOSE x \in S : \A y \in S : x <= y
         IN  <<m>> \o SortedSeq(S \ {m})

\* the tree with n nodes in which node k > 1 hangs under node up[k] < k and
\* node k is named nm[k]; the clades of a node are in increasing order
BuildTree(n, up, nm) ==
    [k \in 1..n |-> Node(nm[k], SortedSeq({j \in 2..n : up[j] = k}))]

\* every ordered tree of at most MaxNodes nodes named from TreeNames
GenTrees ==
    UNION {{BuildTree(n, up, nm) :
                up \in {f \in [2..n -> 1..n] : \A k \in 2..n : f[k] < k},
                nm \in [1..n -> TreeNames]} : n \in 1..MaxNodes}

\* only the last clade is pushed
PushLastClade(stack, name, clades, k) ==
    IF clades = <<>> THEN stack
    ELSE Append(stack, <<name, clades[Len(clades)]>>)

RECURSIVE PushClades(_, _, _, _)
\* for child in clade.clades: stack.append((clade.name, child))
PushClades(stack, name, clades, k) ==
    IF k > Len(clades) THEN stack
    ELSE PushClades(Append(stack, <<name, clades[k]>>), name, clades, k + 1)

RECURSIVE Flatten(_, _, _)
\* the while loop of process_tree
Flatten(tree, stack, taxa) ==
    IF stack = <<>> THEN taxa
    ELSE LET top == stack[Len(stack)]
             parent == top[1]
             clade == tree[top[2]]
             rest == SubSeq(stack, 1, Len(stack) - 1)
             out == IF clade.name # NoneVal
                    THEN Append(taxa, <<clade.name, parent>>)
                    ELSE taxa
         IN  Flatten(tree, PushClades(rest, clade.name, clade.clades, 1), out)

ProcessTree(tree) == Flatten(tree, <<<<NoneVal, 1>>>>, <<>>)

(* --------------------------- store helpers ---------------------------- *)

Row(id, parent) == [id |-> id, parent |-> parent, info |-> NULL]

\* rows that executemany("INSERT INTO taxa (id, parent) ...", taxa) inserts
InsertRows(taxa) == [i \in 1..Len(taxa) |-> Row(taxa[i][1], taxa[i][2])]

\* PRIMARY KEY on id: no inserted pair has the id of a row of the table or
\* of another inserted pair
UniqueIds(rows, pairs) ==
    /\ \A i \in 1..Len(pairs), j \in 1..Len(rows) : pairs[i][1] # rows[j].id
    /\ \A i, j \in 1..Len(pairs) : pairs[i][1] = pairs[j][1] => i = j

\* the COUNT with IS NOT NULL
CountEnriched(rows) == Cardinality({i \in 1..Len(rows) : rows[i].info # NULL})

\* SELECT COUNT(*) FROM taxa WHERE info IS NULL
CountUnenriched(rows) == Cardinality({i \in 1..Len(rows) : rows[i].info = NULL})

\* the UPDATE without its WHERE id=?
UpdateInfoAll(rows, id, val) ==
    [i \in 1..Len(rows) |-> [rows[i] EXCEPT !.info = val]]

\* UPDATE taxa SET info=? WHERE id=?
UpdateInfo(rows, id, val) ==
    [i \in 1..Len(rows) |->
        IF rows[i].id = id THEN [rows[i] EXCEPT !.info = val] ELSE rows[i]]

\* the SELECT without its WHERE info IS NULL
SelectableAll(rows, pos) == (pos + 1)..Len(rows)

\* rows the cursor of SELECT id FROM taxa WHERE info IS NULL may still return
Selectable(rows, pos) == {i \in (pos + 1)..Len(rows) : rows[i].info = NULL}

\* a cursor that steps to the next rowid whatever its info
NextRowUnfiltered(rows, pos) == IF pos < Len(rows) THEN pos + 1 ELSE 0

\* next(new_taxa): the table is scanned in rowid order; 0 = StopIteration
NextRow(rows, pos) ==
    IF Selectable(rows, pos) = {} THEN 0
    ELSE CHOOSE i \in Selectable(rows, pos) : \A j \in Selectable(rows, pos) : i <= j

IdsOf(rows) == {rows[i].id : i \in 1..Len(rows)}
UnenrichedIds(rows) == {rows[i].id : i \in {k \in 1..Len(rows) : rows[k].info = NULL}}
InfoOf(rows, id) ==
    IF \E i \in 1..Len(rows) : rows[i].id = id
    THEN rows[CHOOSE i \in 1..Len(rows) : rows[i].id = id].info
    ELSE NULL

(* ------------------------------ state --------------------------------- *)

VARIABLES
    pc,         \* position of the process in main / lookup_taxa
    status,     \* exit status of the run ("running" while it runs)
    treeFile,   \* OTT_TREE_FILE: NoTree = absent, else the tree it holds
    taxa,       \* the list process_tree returned
    disk,       \* DB_FILE: [table |-> the taxa table exists, rows |-> committed rows]
    conn,       \* rows as the open connection sees them
    cursorPos,  \* rowid the new_taxa cursor last returned
    total,      \* total of lookup_taxa
    index,      \* index of the for loop
    taxon_id,   \* taxon_id of the for loop
    request,    \* ott_id of the request in flight, -1 when there is none
    faults,     \* faults injected so far
    lastOp,     \* what the last step did, and to which taxon
    everSet,    \* ids for which an UPDATE ... SET info was executed, ever
    written,    \* ids for which an UPDATE ... SET info was executed in this run
    visited,    \* ids the for loop of this run has reached
    pending0,   \* ids with info NULL when lookup_taxa of this run began
    prevStatus, \* exit status of the previous run
    percent,    \* percent of lookup_taxa, rounded down (-1: ZeroDivisionError)
    delay,      \* tenths of a second slept since the last request of this
                \* run was sent (-1: no request sent yet)
    \* merge.py
    mpc,        \* position of merge.py
    clades,     \* clades: the rows of the CSV file, [name, ott_id]
    row_lookup, \* row_lookup: name -> position of its row in clades
    names,      \* names: the keys of row_lookup
    m_total,    \* total
    stats,      \* stats: found, missing, ambiguous
    batch_i,    \* i of the for loop over the batches
    results,    \* result["results"] that is still to be handled
    m_percent,  \* percent, rounded down (-1: ZeroDivisionError)
    m_delay,    \* tenths of a second slept since the last post (-1: no post yet)
    m_last      \* what the last step of merge.py did

ottVars == <<pc, status, treeFile, taxa, disk, conn, cursorPos, total, index,
             taxon_id, request, faults, lastOp, everSet, written, visited,
             pending0, prevStatus, percent, delay>>

mergeVars == <<mpc, clades, row_lookup, names, m_total, stats, batch_i, results,
               m_percent, m_delay, m_last>>

vars == <<ottVars, mergeVars>>

runVars == <<cursorPos, total, index, taxon_id, request>>
ghostVars == <<everSet, written, visited, pending0, prevStatus>>

Op(kind, id) == [op |-> kind, id |-> id]

\* merge.py is not running
MergeIdle ==
    /\ mpc = "off"
    /\ clades = <<>>
    /\ row_lookup = <<>>
    /\ names = <<>>
    /\ m_total = 0
    /\ stats = <<0, 0, 0>>
    /\ batch_i = 0
    /\ results = <<>>
    /\ m_percent = 0
    /\ m_delay = -1
    /\ m_last = Op("none", NoneVal)

Init ==
    /\ pc = "start"
    /\ status = "running"
    /\ treeFile = NoTree
    /\ taxa = <<>>
    /\ disk = [table |-> FALSE, rows |-> <<>>]
    /\ conn = <<>>
    /\ cursorPos = 0
    /\ total = 0
    /\ index = 0
    /\ taxon_id = NoneVal
    /\ request = -1
    /\ faults = 0
    /\ lastOp = Op("none", NoneVal)
    /\ everSet = {}
    /\ written = {}
    /\ visited = {}
    /\ pending0 = {}
    /\ prevStatus = "none"
    /\ percent = 0
    /\ delay = -1
    /\ MergeIdle

(* ------------------------------- main --------------------------------- *)

\* sqlite3.connect, PRAGMA journal_mode=WAL, `if not db_exists(conn)`
Start ==
    /\ pc = "start"
    /\ conn' = disk.rows
    /\ pc' = IF disk.table THEN "lookup" ELSE "download"
    /\ lastOp' = Op("connect", NoneVal)
    /\ UNCHANGED <<mergeVars, percent, delay,
                   status, treeFile, taxa, disk, runVars, faults, ghostVars>>

\* download_tree when OTT_TREE_FILE exists: the download is skipped
DownloadSkip ==
    /\ pc = "download"
    /\ treeFile # NoTree
    /\ pc' = "process"
    /\ lastOp' = Op("found", NoneVal)
    /\ UNCHANGED <<mergeVars, percent, delay,
                   status, treeFile, taxa, disk, conn, runVars, faults, ghostVars>>

\* download_tree: urlretrieve stores one of the trees
DownloadOk ==
    /\ pc = "download"
    /\ treeFile = NoTree
    /\ \E t \in 1..Len(Trees) : treeFile' = Trees[t]
    /\ pc' = "process"
    /\ lastOp' = Op("download", NoneVal)
    /\ UNCHANGED <<mergeVars, percent, delay,
                   status, taxa, disk, conn, runVars, faults, ghostVars>>

\* download_tree: urlretrieve raises, exit(1)
DownloadFail ==
    /\ pc = "download"
    /\ treeFile = NoTree
    /\ faults < MaxFaults
    /\ faults' = faults + 1
    /\ pc' = "exited"
    /\ status' = "1"
    /\ lastOp' = Op("download_failed", NoneVal)
    /\ UNCHANGED <<mergeVars, percent, delay,
                   treeFile, taxa, disk, conn, runVars, ghostVars>>

\* taxa = process_tree()
ProcessTreeStep ==
    /\ pc = "process"
    /\ taxa' = ProcessTree(treeFile)
    /\ pc' = "create"
    /\ lastOp' = Op("process_tree", NoneVal)
    /\ UNCHANGED <<mergeVars, percent, delay,
                   status, treeFile, disk, conn, runVars, faults, ghostVars>>

\* db_create, CREATE TABLE IF NOT EXISTS: no transaction is open and the
\* sqlite3 module opens none for DDL, so the table is durable at once
DbCreateTable ==
    /\ pc = "create"
    /\ disk' = [disk EXCEPT !.table = TRUE]
    /\ pc' = "insert"
    /\ lastOp' = Op("create_table", NoneVal)
    /\ UNCHANGED <<mergeVars, percent, delay,
                   status, treeFile, taxa, conn, runVars, faults, ghostVars>>

RECURSIVE FirstConflict(_, _, _)
\* index of the first pair whose id is already in the table or in an
\* earlier pair (0 if none)
FirstConflict(rows, pairs, k) ==
    IF k > Len(pairs) THEN 0
    ELSE IF ~UniqueIds(rows, SubSeq(pairs, 1, k)) THEN k
    ELSE FirstConflict(rows, pairs, k + 1)

\* rows left by an executemany that stopped without the rollback of `with conn`
FailedInsertNoRollback(rows, pairs) ==
    rows \o InsertRows(SubSeq(pairs, 1, FirstConflict(rows, pairs, 1) - 1))

\* rows after executemany raised IntegrityError inside `with conn`: rollback
FailedInsert(rows, pairs) == rows

\* db_create, executemany succeeds and `with conn` commits
DbInsertOk ==
    /\ pc = "insert"
    /\ UniqueIds(conn, taxa)
    /\ conn' = conn \o InsertRows(taxa)
    /\ disk' = [disk EXCEPT !.rows = conn']
    /\ pc' = "lookup"
    /\ lastOp' = Op("insert", NoneVal)
    /\ UNCHANGED <<mergeVars, percent, delay,
                   status, treeFile, taxa, runVars, faults, ghostVars>>

\* db_create, executemany raises IntegrityError: `with conn` rolls back and
\* the exception leaves main
DbInsertFail ==
    /\ pc = "insert"
    /\ ~UniqueIds(conn, taxa)
    /\ disk' = [disk EXCEPT !.rows = FailedInsert(disk.rows, taxa)]
    /\ conn' = disk'.rows
    /\ pc' = "exited"
    /\ status' = "1"
    /\ lastOp' = Op("insert_failed", NoneVal)
    /\ UNCHANGED <<mergeVars, percent, delay,
                   treeFile, taxa, runVars, faults, ghostVars>>

(* ---------------------------- lookup_taxa ----------------------------- *)

\* total = SELECT COUNT(*) ...; new_taxa = SELECT id ... WHERE info IS NULL
LookupBegin ==
    /\ pc = "lookup"
    /\ total' = CountUnenriched(conn)
    /\ cursorPos' = 0
    /\ index' = 0
    /\ pending0' = UnenrichedIds(conn)
    /\ pc' = "loop"
    /\ lastOp' = Op("select", NoneVal)
    /\ UNCHANGED <<mergeVars, percent, delay,
                   status, treeFile, taxa, disk, conn, taxon_id, request,
                   faults, everSet, written, visited, prevStatus>>

\* percent = (index / total) * 100, rounded down; -1 stands for the
\* ZeroDivisionError of total = 0
Percent(idx, tot) == IF tot = 0 THEN -1 ELSE (idx * 100) \div tot

\* sleep(0.5), in tenths of a second
SleepTenths == 5

\* no sleep at the end of the iteration
NoSleep(t) == t

\* sleep(0.5) # Respectful API call velocity.
Sleep(t) == t + SleepTenths

\* conn.commit() when index % 100 == 0
Checkpoint(i, rows) ==
    IF i % CheckpointInterval = 0 THEN [disk EXCEPT !.rows = rows] ELSE disk

\* the UPDATE of the composite branch left out
CompositeUpdateMissing(rows, id) == rows

\* the UPDATE of the composite branch
CompositeUpdate(rows, id) == UpdateInfo(rows, id, Placeholder)

\* one iteration for a composite id: placeholder UPDATE, then `continue`
SkipComposite ==
    /\ pc = "loop"
    /\ NextRow(conn, cursorPos) # 0
    /\ LET r == NextRow(conn, cursorPos)
           id == conn[r].id
       IN  /\ ~PatternMatch(id)
           /\ cursorPos' = r
           /\ index' = index + 1
           /\ taxon_id' = id
           /\ percent' = Percent(index + 1, total)
           /\ visited' = visited \cup {id}
           /\ IF Percent(index + 1, total) < 0
              THEN \* ZeroDivisionError leaves main
                   /\ conn' = disk.rows
                   /\ lastOp' = Op("zero_division", id)
                   /\ pc' = "exited"
                   /\ status' = "1"
                   /\ UNCHANGED <<everSet, written>>
              ELSE /\ conn' = CompositeUpdate(conn, id)
                   /\ lastOp' = Op("placeholder", id)
                   /\ everSet' = everSet \cup {id}
                   /\ written' = written \cup {id}
                   /\ UNCHANGED <<pc, status>>
    /\ UNCHANGED <<mergeVars, delay,
                   treeFile, taxa, disk, total, request, faults,
                   pending0, prevStatus>>

\* one iteration for a canonical id, up to opener.open(req)
SendRequest ==
    /\ pc = "loop"
    /\ NextRow(conn, cursorPos) # 0
    /\ LET r == NextRow(conn, cursorPos)
           id == conn[r].id
       IN  /\ PatternMatch(id)
           /\ cursorPos' = r
           /\ index' = index + 1
           /\ taxon_id' = id
           /\ percent' = Percent(index + 1, total)
           /\ visited' = visited \cup {id}
           /\ IF Percent(index + 1, total) < 0
              THEN \* ZeroDivisionError leaves main
                   /\ conn' = disk.rows
                   /\ lastOp' = Op("zero_division", id)
                   /\ pc' = "exited"
                   /\ status' = "1"
                   /\ UNCHANGED <<request, delay>>
              ELSE /\ request' = OttId(id)
                   /\ delay' = 0
                   /\ lastOp' = Op("request", id)
                   /\ pc' = "request"
                   /\ UNCHANGED <<status, conn>>
    /\ UNCHANGED <<mergeVars,
                   treeFile, taxa, disk, total, faults, everSet,
                   written, pending0, prevStatus>>

\* response.status == 200: UPDATE, checkpoint, sleep
Response200 ==
    /\ pc = "request"
    /\ \E body \in Payloads : conn' = UpdateInfo(conn, taxon_id, body)
    /\ disk' = Checkpoint(index, conn')
    /\ request' = -1
    /\ delay' = Sleep(delay)
    /\ lastOp' = Op("update", taxon_id)
    /\ everSet' = everSet \cup {taxon_id}
    /\ written' = written \cup {taxon_id}
    /\ pc' = "loop"
    /\ UNCHANGED <<mergeVars, percent,
                   status, treeFile, taxa, cursorPos, total, index, taxon_id,
                   faults, visited, pending0, prevStatus>>

\* a 2xx response other than 200 is returned by the opener: no UPDATE,
\* checkpoint, sleep
ResponseOther2xx ==
    /\ pc = "request"
    /\ faults < MaxFaults
    /\ faults' = faults + 1
    /\ disk' = Checkpoint(index, conn)
    /\ request' = -1
    /\ delay' = Sleep(delay)
    /\ lastOp' = Op("ignored", taxon_id)
    /\ pc' = "loop"
    /\ UNCHANGED <<mergeVars, percent,
                   status, treeFile, taxa, conn, cursorPos, total, index,
                   taxon_id, ghostVars>>

\* opener.open raises (HTTPError, URLError): the exception leaves main
ResponseError ==
    /\ pc = "request"
    /\ faults < MaxFaults
    /\ faults' = faults + 1
    /\ conn' = disk.rows
    /\ request' = -1
    /\ lastOp' = Op("error", taxon_id)
    /\ pc' = "exited"
    /\ status' = "1"
    /\ UNCHANGED <<mergeVars, percent, delay,
                   treeFile, taxa, disk, cursorPos, total, index, taxon_id,
                   ghostVars>>

\* new_taxa is exhausted: lookup_taxa returns, conn.close(), "Done!"
LoopEnd ==
    /\ pc = "loop"
    /\ NextRow(conn, cursorPos) = 0
    /\ conn' = disk.rows
    /\ lastOp' = Op("close", NoneVal)
    /\ pc' = "exited"
    /\ status' = "0"
    /\ UNCHANGED <<mergeVars, percent, delay,
                   treeFile, taxa, disk, runVars, faults, ghostVars>>

\* a handler that exits with the status of a failure
InterruptExitsOne ==
    /\ pc \in {"lookup", "loop", "request"}
    /\ faults < MaxFaults
    /\ faults' = faults + 1
    /\ conn' = disk.rows
    /\ request' = -1
    /\ lastOp' = Op("interrupt", NoneVal)
    /\ pc' = "exited"
    /\ status' = "1"
    /\ UNCHANGED <<mergeVars, percent, delay,
                   treeFile, taxa, disk, cursorPos, total, index, taxon_id,
                   ghostVars>>

\* KeyboardInterrupt inside the try of main: exit(130)
Interrupt ==
    /\ pc \in {"lookup", "loop", "request"}
    /\ faults < MaxFaults
    /\ faults' = faults + 1
    /\ conn' = disk.rows
    /\ request' = -1
    /\ lastOp' = Op("interrupt", NoneVal)
    /\ pc' = "exited"
    /\ status' = "130"
    /\ UNCHANGED <<mergeVars, percent, delay,
                   treeFile, taxa, disk, cursorPos, total, index, taxon_id,
                   ghostVars>>

\* the process is killed: the pending transaction is never committed
Crash ==
    /\ pc \notin {"off", "start", "exited"}
    /\ faults < MaxFaults
    /\ faults' = faults + 1
    /\ conn' = disk.rows
    /\ request' = -1
    /\ lastOp' = Op("kill", NoneVal)
    /\ pc' = "exited"
    /\ status' = "killed"
    /\ UNCHANGED <<mergeVars, percent, delay,
                   treeFile, taxa, disk, cursorPos, total, index, taxon_id,
                   ghostVars>>

\* the script is run again
Restart ==
    /\ pc = "exited"
    /\ pc' = "start"
    /\ status' = "running"
    /\ prevStatus' = status
    /\ taxa' = <<>>
    /\ conn' = disk.rows
    /\ cursorPos' = 0
    /\ total' = 0
    /\ index' = 0
    /\ taxon_id' = NoneVal
    /\ request' = -1
    /\ written' = {}
    /\ visited' = {}
    /\ pending0' = {}
    /\ percent' = 0
    /\ delay' = -1
    /\ lastOp' = Op("none", NoneVal)
    /\ UNCHANGED <<mergeVars,
                   treeFile, disk, faults, everSet>>

Next ==
    \/ Start
    \/ DownloadSkip
    \/ DownloadOk
    \/ DownloadFail
    \/ ProcessTreeStep
    \/ DbCreateTable
    \/ DbInsertOk
    \/ DbInsertFail
    \/ LookupBegin
    \/ SkipComposite
    \/ SendRequest
    \/ Response200
    \/ ResponseOther2xx
    \/ ResponseError
    \/ LoopEnd
    \/ Interrupt
    \/ Crash
    \/ Restart

Spec == Init /\ [][Next]_vars

\* process_tree on its own: OTT_TREE_FILE holds any tree of GenTrees and the
\* run is about to call process_tree
TreeInit ==
    /\ pc = "process"
    /\ status = "running"
    /\ treeFile \in GenTrees
    /\ taxa = <<>>
    /\ disk = [table |-> FALSE, rows |-> <<>>]
    /\ conn = <<>>
    /\ cursorPos = 0
    /\ total = 0
    /\ index = 0
    /\ taxon_id = NoneVal
    /\ request = -1
    /\ faults = 0
    /\ lastOp = Op("found", NoneVal)
    /\ everSet = {}
    /\ written = {}
    /\ visited = {}
    /\ pending0 = {}
    /\ prevStatus = "none"
    /\ percent = 0
    /\ delay = -1
    /\ MergeIdle

TreeNext == ProcessTreeStep

TreeSpec == TreeInit /\ [][TreeNext]_vars

\* Every run makes progress and the script is run again after each exit;
\* faults stop once MaxFaults of them have happened.
FairSpec == Spec /\ WF_vars(Next)

(* ------------------------------ merge.py ------------------------------ *)

\* names of the rows of clades.csv (distinct: SELECT DISTINCT ON (TRIM(name)))
CladeNames == {"Foo", "Bar", "Baz", "Qux"}

\* ott_id values the name-resolution API may return for a match
MatchIds == {11, 12}

\* an ott_id cell that is missing or empty (falsy for `not c.get("ott_id")`)
Empty == 0

CladeRow(name, ott_id) == [name |-> name, ott_id |-> ott_id]

\* contents clades.csv may have: up to MaxRows rows with distinct names,
\* each with or without an ott_id
CsvFiles ==
    UNION {{f \in [1..n -> [name : CladeNames, ott_id : {Empty} \cup MatchIds]] :
                \A a, b \in 1..n : f[a].name = f[b].name => a = b} : n \in 0..MaxRows}

\* row_lookup = {c["name"]: i for i, c in enumerate(clades) if not c.get("ott_id")}
\* (a later row with the same name replaces the earlier one)
RowLookup(rows) ==
    [n \in {rows[k].name : k \in {j \in 1..Len(rows) : rows[j].ott_id = Empty}} |->
        CHOOSE k \in 1..Len(rows) :
            /\ rows[k].name = n /\ rows[k].ott_id = Empty
            /\ \A j \in 1..Len(rows) :
                  (rows[j].name = n /\ rows[j].ott_id = Empty) => j <= k]

RECURSIVE Keys(_, _, _)
\* list(row_lookup.keys()): the keys in the order of their first insertion
Keys(rows, k, acc) ==
    IF k > Len(rows) THEN acc
    ELSE IF rows[k].ott_id = Empty /\ \A j \in 1..Len(acc) : acc[j] # rows[k].name
         THEN Keys(rows, k + 1, Append(acc, rows[k].name))
         ELSE Keys(rows, k + 1, acc)

\* names[i:i + BATCH_SIZE]
Slice(list, from) ==
    SubSeq(list, from + 1, IF from + BATCH_SIZE < Len(list)
                           THEN from + BATCH_SIZE ELSE Len(list))

\* match lists the API may answer for one name
MatchLists == {<<>>} \cup {<<a>> : a \in MatchIds}
                  \cup {<<a, b>> : a \in MatchIds, b \in MatchIds}

RECURSIVE Answers(_)
\* result["results"] the API may answer for a batch: per name, in order,
\* either no entry or one entry with a match list
Answers(batch) ==
    IF batch = <<>> THEN {<<>>}
    ELSE LET rest == Answers(Tail(batch))
         IN  rest \cup {<<[name |-> Head(batch), matches |-> m]>> \o r :
                            m \in MatchLists, r \in rest}

\* an `elif` that takes the first of several matches
OutcomeFirstMatch(matches) ==
    IF Len(matches) = 0 THEN -1 ELSE matches[1]

\* the value written to row["ott_id"]
Outcome(matches) ==
    IF Len(matches) = 0 THEN -1
    ELSE IF Len(matches) > 1 THEN -2
    ELSE matches[1]

\* the position in stats that is incremented
StatOf(matches) ==
    IF Len(matches) = 0 THEN 2
    ELSE IF Len(matches) > 1 THEN 3
    ELSE 1

\* clades = list(DictReader(file)); row_lookup, total, stats, names
Load ==
    /\ mpc = "load"
    /\ row_lookup' = RowLookup(clades)
    /\ m_total' = Cardinality(DOMAIN RowLookup(clades))
    /\ stats' = <<0, 0, 0>>
    /\ names' = Keys(clades, 1, <<>>)
    /\ batch_i' = 0
    /\ mpc' = "batch"
    /\ m_last' = Op("load", NoneVal)
    /\ UNCHANGED <<ottVars, clades, results, m_percent, m_delay>>

\* one batch: percent, progress line, post(API_URL, ...) is sent
PostBatch ==
    /\ mpc = "batch"
    /\ batch_i < m_total
    /\ m_percent' = Percent(batch_i, m_total)
    /\ IF Percent(batch_i, m_total) < 0
       THEN \* ZeroDivisionError ends the script
            /\ mpc' = "failed"
            /\ m_last' = Op("zero_division", NoneVal)
            /\ UNCHANGED m_delay
       ELSE /\ mpc' = "posted"
            /\ m_delay' = 0
            /\ m_last' = Op("post", NoneVal)
    /\ UNCHANGED <<ottVars, clades, row_lookup, names, m_total, stats, batch_i,
                   results>>

\* the post succeeds: result = response.json()
PostOk ==
    /\ mpc = "posted"
    /\ results' \in Answers(Slice(names, batch_i))
    /\ mpc' = "apply"
    /\ m_last' = Op("response", NoneVal)
    /\ UNCHANGED <<ottVars, clades, row_lookup, names, m_total, stats, batch_i,
                   m_percent, m_delay>>

\* RequestException: "API call failed", exit(1)
PostFail ==
    /\ mpc = "posted"
    /\ mpc' = "failed"
    /\ m_last' = Op("post_failed", NoneVal)
    /\ UNCHANGED <<ottVars, clades, row_lookup, names, m_total, stats, batch_i,
                   results, m_percent, m_delay>>

\* one iteration of `for clade in result["results"]`
ApplyResult ==
    /\ mpc = "apply"
    /\ results # <<>>
    /\ LET clade == Head(results)
           row == row_lookup[clade.name]
       IN  /\ clades' = [clades EXCEPT ![row].ott_id = Outcome(clade.matches)]
           /\ stats' = [stats EXCEPT ![StatOf(clade.matches)] = @ + 1]
           /\ m_last' = Op("apply", clade.name)
    /\ results' = Tail(results)
    /\ UNCHANGED <<ottVars, mpc, row_lookup, names, m_total, batch_i, m_percent,
                   m_delay>>

\* the results are handled: sleep(0.5), next i of range(0, total, BATCH_SIZE)
EndBatch ==
    /\ mpc = "apply"
    /\ results = <<>>
    /\ m_delay' = Sleep(m_delay)
    /\ batch_i' = batch_i + BATCH_SIZE
    /\ mpc' = "batch"
    /\ m_last' = Op("sleep", NoneVal)
    /\ UNCHANGED <<ottVars, clades, row_lookup, names, m_total, stats, results,
                   m_percent>>

\* the range is exhausted: summary line, the output file is written
\* (clades[0] raises IndexError when the CSV file had no row)
Finish ==
    /\ mpc = "batch"
    /\ batch_i >= m_total
    /\ mpc' = IF clades = <<>> THEN "failed" ELSE "done"
    /\ m_last' = Op(IF clades = <<>> THEN "index_error" ELSE "write", NoneVal)
    /\ UNCHANGED <<ottVars, clades, row_lookup, names, m_total, stats, batch_i,
                   results, m_percent, m_delay>>

\* merge.py is started on some clades.csv; ott.py is not running
MergeInit ==
    /\ pc = "off"
    /\ status = "running"
    /\ treeFile = NoTree
    /\ taxa = <<>>
    /\ disk = [table |-> FALSE, rows |-> <<>>]
    /\ conn = <<>>
    /\ cursorPos = 0
    /\ total = 0
    /\ index = 0
    /\ taxon_id = NoneVal
    /\ request = -1
    /\ faults = 0
    /\ lastOp = Op("none", NoneVal)
    /\ everSet = {}
    /\ written = {}
    /\ visited = {}
    /\ pending0 = {}
    /\ prevStatus = "none"
    /\ percent = 0
    /\ delay = -1
    /\ mpc = "load"
    /\ clades \in CsvFiles
    /\ row_lookup = <<>>
    /\ names = <<>>
    /\ m_total = 0
    /\ stats = <<0, 0, 0>>
    /\ batch_i = 0
    /\ results = <<>>
    /\ m_percent = 0
    /\ m_delay = -1
    /\ m_last = Op("none", NoneVal)

MergeNext ==
    \/ Load
    \/ PostBatch
    \/ PostOk
    \/ PostFail
    \/ ApplyResult
    \/ EndBatch
    \/ Finish

MergeSpec == MergeInit /\ [][MergeNext]_vars

\* either script is started and run
ToolsInit == Init \/ MergeInit

ToolsNext ==
    \/ Start
    \/ DownloadSkip
    \/ DownloadOk
    \/ DownloadFail
    \/ ProcessTreeStep
    \/ DbCreateTable
    \/ DbInsertOk
    \/ DbInsertFail
    \/ LookupBegin
    \/ SkipComposite
    \/ SendRequest
    \/ Response200
    \/ ResponseOther2xx
    \/ ResponseError
    \/ LoopEnd
    \/ Interrupt
    \/ Crash
    \/ Restart
    \/ Load
    \/ PostBatch
    \/ PostOk
    \/ PostFail
    \/ ApplyResult
    \/ EndBatch
    \/ Finish

ToolsSpec == ToolsInit /\ [][ToolsNext]_vars

(* ------------------------------ claims -------------------------------- *)

\* ids of the sample trees that have the canonical shape "ott" + digits
CanonicalIds == {Ott1, Ott2, Ott3, Ott12}

\* taxa of this run whose UPDATE has not reached the database file
Uncommitted == {id \in written : InfoOf(disk.rows, id) = NULL}

\* the step that was just taken concerned the enrichment of one taxon
RemoteOps == {"request", "update", "ignored", "error"}
EnrichOps == {"request", "update", "placeholder"}

\* C1: when a run ends, by the end of the loop (status 0) or by an interrupt
\* (status 130), every enrichment written in that run is in the database file.
C1_FinalCommit ==
    (pc = "exited" /\ status \in {"0", "130"})
        => \A id \in written : InfoOf(disk.rows, id) # NULL

\* C2: run again and again, with remote calls that eventually succeed, the
\* database file eventually has no unenriched taxon and stays that way.
C2_Convergence == <>[](disk.table /\ CountUnenriched(disk.rows) = 0)

\* C3: a run that exits with status 0 leaves no row with info NULL in the
\* database file.
C3_ExitZeroComplete ==
    (pc = "exited" /\ status = "0") => CountUnenriched(disk.rows) = 0

\* C4: the run after an aborted run visits exactly the taxa that were not
\* committed, and when it finishes every row of the database file is
\* enriched and every id is present once.
C4_Resumption ==
    (pc = "exited" /\ status = "0" /\ prevStatus = "130")
        => /\ visited = pending0
           /\ CountUnenriched(disk.rows) = 0
           /\ Cardinality(IdsOf(disk.rows)) = Len(disk.rows)

\* C5 (as claimed): once an UPDATE of info was executed for an id, no later
\* step of any run sends a request for that id or updates it again.
C5_NeverRefetched ==
    [][lastOp'.op \in EnrichOps => lastOp'.id \notin everSet]_vars

\* C5 (amended): once the enrichment of an id is committed to the database
\* file, no later step of any run sends a request for that id or updates it
\* again.
C5_CommittedNeverRefetched ==
    [][lastOp'.op \in EnrichOps => InfoOf(disk.rows, lastOp'.id) = NULL]_vars

\* a later run is inside its loop, has visited a taxon, and left out a taxon
\* that was committed before it began
C5_Witness ==
    /\ prevStatus # "none"
    /\ pc = "loop"
    /\ visited # {}
    /\ \E id \in IdsOf(disk.rows) \ pending0 : id \in everSet

\* C6: at every point of a run at most CheckpointInterval processed taxa
\* have an enrichment that is not yet committed.
C6_BoundedLoss == Cardinality(Uncommitted) <= CheckpointInterval

\* C7: no step, in particular no interrupt, remote error or kill, removes or
\* alters a row of the database file whose enrichment is committed.
C7_CommittedSurvives ==
    [][\A i \in 1..Len(disk.rows) :
          disk.rows[i].info # NULL
              => i <= Len(disk'.rows) /\ disk'.rows[i] = disk.rows[i]]_vars

\* a run was stopped by an interrupt, an error or a kill while it had
\* uncommitted work, and the database file holds a committed enrichment
C7_Witness ==
    /\ pc = "exited"
    /\ status \in {"130", "1", "killed"}
    /\ written # {}
    /\ \E i \in 1..Len(disk.rows) : disk.rows[i].info # NULL

\* C8: requests are only made for canonical ids, and every composite id the
\* loop has reached carries the placeholder.
C8_CompositeNoRemote ==
    /\ lastOp.op \in RemoteOps => lastOp.id \in CanonicalIds
    /\ request # -1 => taxon_id \in CanonicalIds
    /\ pc \in {"loop", "request"} =>
          \A id \in visited \ CanonicalIds : InfoOf(conn, id) = "Unknown Taxon"

\* the loop has just handled a composite id
C8_Witness ==
    /\ lastOp.op = "placeholder"
    /\ lastOp.id \notin CanonicalIds
    /\ pc = "loop"

\* C9: between iterations, every taxon the loop has moved past is enriched
\* (placeholder or payload) in the connection's view.
C9_NoPendingPassed ==
    pc = "loop" => \A id \in visited : InfoOf(conn, id) # NULL

\* C10: after db_create failed on an insert, none of the pairs of that call
\* is in the database file.
C10_BulkInsertAtomic ==
    lastOp.op = "insert_failed"
        => \A k \in 1..Len(taxa) : taxa[k][1] \notin IdsOf(disk.rows)

\* db_create has just failed on a duplicate id
C10_Witness ==
    /\ pc = "exited"
    /\ lastOp.op = "insert_failed"
    /\ status = "1"
    /\ Len(taxa) > 1

\* nodes of a tree that carry a name
NamedNodes(tree) == {k \in 1..Len(tree) : tree[k].name # NoneVal}

\* the node a node hangs under, 0 for the root
ParentNode(tree, k) ==
    IF \E j \in 1..Len(tree) : \E c \in 1..Len(tree[j].clades) : tree[j].clades[c] = k
    THEN CHOOSE j \in 1..Len(tree) :
             \E c \in 1..Len(tree[j].clades) : tree[j].clades[c] = k
    ELSE 0

RECURSIVE NearestNamedAncestor(_, _)
\* name of the closest ancestor that has a name, NoneVal when there is none
NearestNamedAncestor(tree, k) ==
    LET up == ParentNode(tree, k)
    IN  IF up = 0 THEN NoneVal
        ELSE IF tree[up].name # NoneVal THEN tree[up].name
        ELSE NearestNamedAncestor(tree, up)

\* how often a pair occurs in a list of pairs
Occurrences(pairs, pr) == Cardinality({i \in 1..Len(pairs) : pairs[i] = pr})

\* C11: process_tree returns as many pairs as the tree has named nodes, as
\* many pairs with a given id as there are nodes with that name, and every
\* parent that is not absent is the id of some pair.
C11_FlattenCovers ==
    pc = "create" =>
        /\ Len(taxa) = Cardinality(NamedNodes(treeFile))
        /\ \A x \in TreeNames \cup {Ott3, Ott12, Ott1x} :
              Cardinality({i \in 1..Len(taxa) : taxa[i][1] = x})
                  = Cardinality({k \in NamedNodes(treeFile) : treeFile[k].name = x})
        /\ \A i \in 1..Len(taxa) :
              taxa[i][2] # NoneVal => \E j \in 1..Len(taxa) : taxa[j][1] = taxa[i][2]

\* a tree of four nodes with an unnamed inner node and named nodes on both
\* sides of it has been flattened
C11_Witness ==
    /\ pc = "create"
    /\ Len(treeFile) = 4
    /\ Len(taxa) = 3
    /\ \E k \in 2..4 : treeFile[k].name = NoneVal /\ treeFile[k].clades # <<>>

\* C12: the parent recorded for every named node is the name of its nearest
\* named ancestor (absent only when it has none): the list holds each pair
\* (name, nearest named ancestor) as often as the tree has such nodes.
C12_NearestNamedAncestor ==
    pc = "create" =>
        \A k \in NamedNodes(treeFile) :
            LET pr == <<treeFile[k].name, NearestNamedAncestor(treeFile, k)>>
            IN  Occurrences(taxa, pr)
                    = Cardinality({j \in NamedNodes(treeFile) :
                          <<treeFile[j].name, NearestNamedAncestor(treeFile, j)>> = pr})

\* C13: each result of a name-resolution response sets the ott_id of the row
\* with that name to -1 for no match, -2 for two or more matches and the
\* matched identifier for one match, leaves the other rows alone, and adds
\* one to exactly the counter of that outcome (found, missing, ambiguous).
C13_ThreeWayOutcome ==
    [][m_last'.op = "apply" =>
          LET clade == Head(results)
              n == Len(clade.matches)
              row == CHOOSE k \in 1..Len(clades) : clades[k].name = clade.name
          IN  /\ clades'[row].ott_id =
                     (CASE n = 0 -> -1 [] n = 1 -> clade.matches[1] [] n >= 2 -> -2)
              /\ \A k \in 1..Len(clades) : k # row => clades'[k] = clades[k]
              /\ stats'[1] = stats[1] + (IF n = 1 THEN 1 ELSE 0)
              /\ stats'[2] = stats[2] + (IF n = 0 THEN 1 ELSE 0)
              /\ stats'[3] = stats[3] + (IF n >= 2 THEN 1 ELSE 0)]_vars

\* merge.py finished after it met each of the three outcomes once
C13_Witness ==
    /\ mpc = "done"
    /\ stats = <<1, 1, 1>>
    /\ \E k \in 1..Len(clades) : clades[k].ott_id = -2
    /\ \E k \in 1..Len(clades) : clades[k].ott_id = -1

\* C14: an interrupt in the enrichment loop ends the run with status 130; a
\* remote-call error and a failed tree download end it with a status that is
\* neither 0 nor 130.
C14_ExitStatus ==
    /\ lastOp.op = "interrupt" => pc = "exited" /\ status = "130"
    /\ lastOp.op \in {"error", "download_failed"} =>
          pc = "exited" /\ status \notin {"0", "130", "running"}

\* a run was interrupted after its loop had reached a taxon
C14_Witness ==
    /\ lastOp.op = "interrupt"
    /\ status = "130"
    /\ visited # {}

\* C15: when a request is sent and an earlier request of the same run
\* exists, at least the fixed delay was slept since that earlier request, in
\* ott.py and in merge.py; handling a composite id sleeps no time.
C15_RateLimit ==
    [][/\ (lastOp'.op = "request" /\ lastOp # lastOp' /\ delay # -1)
              => delay >= SleepTenths
       /\ (m_last'.op = "post" /\ m_last # m_last' /\ m_delay # -1)
              => m_delay >= SleepTenths
       /\ (lastOp'.op = "placeholder" /\ lastOp # lastOp') => delay' = delay]_vars

\* a request is in flight that follows an earlier request of the run and a
\* composite id handled in between
C15_Witness ==
    /\ pc = "request"
    /\ index >= 3
    /\ \E id \in written : id \in CanonicalIds
    /\ \E id \in written : id \notin CanonicalIds

\* C16: after an exception inside db_create the table does not exist, and
\* whenever the table exists at the start of a run it holds every pair of
\* the flattened tree.
C16_FailedLoadUninitialized ==
    /\ (pc = "exited" /\ lastOp.op = "insert_failed") => ~disk.table
    /\ (pc = "start" /\ disk.table /\ treeFile # NoTree) =>
          \A k \in 1..Len(ProcessTree(treeFile)) :
              ProcessTree(treeFile)[k][1] \in IdsOf(disk.rows)

\* C17 (as claimed): an interrupt is never honoured while a request is in
\* flight.
C17_CooperativeCancel ==
    [][lastOp'.op = "interrupt" => pc # "request"]_vars

\* C17 (amended): an interrupt that arrives while a request is in flight ends
\* the run at once with status 130, and the taxon of that request has no
\* enrichment written in this run and none in the database file.
C17_AbortInFlight ==
    [][(pc = "request" /\ lastOp'.op = "interrupt") =>
          /\ pc' = "exited" /\ status' = "130"
          /\ taxon_id \notin written'
          /\ InfoOf(disk'.rows, taxon_id) = NULL]_vars

\* a run was interrupted between sending a request and its response
C17_Witness ==
    /\ lastOp.op = "interrupt"
    /\ delay = 0
    /\ taxon_id \in visited \ written

\* C18: the loop reaches only taxa that were unenriched when the run began,
\* each at most once and never one it has written; every UPDATE of info,
\* the placeholder included, lowers the count of unenriched rows by one.
C18_LiveIteration ==
    [][/\ lastOp'.op \in {"request", "placeholder"} =>
              /\ lastOp'.id \in pending0
              /\ lastOp'.id \notin visited
              /\ lastOp'.id \notin written
       /\ lastOp'.op \in {"update", "placeholder"} =>
              CountUnenriched(conn') = CountUnenriched(conn) - 1]_vars

\* a run has written a composite and a canonical taxon and is between two
\* iterations with a taxon left
C18_Witness ==
    /\ pc = "loop"
    /\ \E id \in written : id \in CanonicalIds
    /\ \E id \in written : id \notin CanonicalIds
    /\ NextRow(conn, cursorPos) # 0

\* C19: no percentage is computed with total = 0, the index reported never
\* exceeds total, and the percentage is between 0 and 100, in ott.py and in
\* merge.py.
C19_ProgressSafe ==
    /\ lastOp.op # "zero_division"
    /\ m_last.op # "zero_division"
    /\ percent \in 0..100
    /\ m_percent \in 0..100
    /\ index <= total
    /\ mpc \in {"posted", "apply"} => batch_i < m_total

\* a run of ott.py that found no unenriched taxon has finished
C19_Witness ==
    /\ pc = "exited"
    /\ status = "0"
    /\ disk.table
    /\ total = 0
    /\ lastOp.op = "close"

====
